---- MODULE Spec2Model ----
(***************************************************************************)
(* The submit command of the CLI (cmd/submit.go) and the diagnostic dump   *)
(* layer (debug/debug.go).                                                  *)
(*                                                                          *)
(* Spec      : one run of runSubmit over a fixed file system, with the      *)
(*             metadata store, the API client and the server as             *)
(*             nondeterministic collaborators.                              *)
(* SpecDebug : DumpRequest / DumpResponse applied to bounded requests and   *)
(*             responses; the body left behind is what a later reader gets. *)
(***************************************************************************)
EXTENDS Integers, Sequences, FiniteSets, TLC

VARIABLES
    \* ---- runSubmit ----
    args,        \* submitContext.args (rewritten in place by sanitizeArgs)
    pc,          \* next stage of runSubmit, or "done" / "failed"
    last,        \* the stage that ran last
    err,         \* the error runSubmit returns
    exercise,    \* submitContext.exercise
    loaded,      \* what workspace.NewExerciseMetadata returned
    metadata,    \* submitContext.metadata
    documents,   \* submitContext.documents
    requests,    \* the HTTP requests handed to client.Do, in order
    response,    \* what client.Do returned
    stderr,      \* what was written to Err
    stdout,      \* what was written to Out
    \* ---- package debug ----
    Verbose,     \* debug.Verbose
    UnmaskAPIKey,\* debug.UnmaskAPIKey
    req,         \* the *http.Request given to DumpRequest
    res,         \* the *http.Response given to DumpResponse
    output,      \* what was written to debug.output
    dpc,         \* position of the debug scenario
    orig         \* the request and response as they were before the dump

runVars   == <<args, pc, last, err, exercise, loaded, metadata, documents,
               requests, response, stderr, stdout>>
debugVars == <<Verbose, UnmaskAPIKey, req, res, output, dpc, orig>>
vars      == <<runVars, debugVars>>

---------------------------------------------------------------------------
(* Bounds *)

MaxArgs   == 3   \* longest argument list
MaxMsgLen == 2   \* longest server error message, in characters
MaxBody   == 2   \* longest request / response body, in bytes

---------------------------------------------------------------------------
(* Sequences *)

RECURSIVE SeqsUpTo(_, _)
SeqsUpTo(S, n) ==
    IF n = 0 THEN {<<>>}
    ELSE LET shorter == SeqsUpTo(S, n - 1)
         IN  shorter \cup {Append(s, x) : s \in {t \in shorter : Len(t) = n - 1}, x \in S}

Last(s) == s[Len(s)]
Front(s) == SubSeq(s, 1, Len(s) - 1)
HasPrefix(s, p) == Len(p) <= Len(s) /\ SubSeq(s, 1, Len(p)) = p

---------------------------------------------------------------------------
(* The file system, the same for the whole run.  A path is the sequence    *)
(* of its components; an absolute path starts with "/".                     *)

WsDir == <<"/", "ws">>                \* usrCfg.GetString("workspace")
D1    == WsDir \o <<"d1">>            \* an exercise directory (has metadata)
D2    == WsDir \o <<"d2">>            \* another exercise directory
D3    == WsDir \o <<"d3">>            \* a directory without metadata
Cwd   == D1                           \* the working directory

FileA == D1 \o <<"a.txt">>            \* 12 bytes
FileE == D1 \o <<"e.txt">>            \* empty
FileM == D1 \o <<"m.txt">>            \* 65534 bytes
FileX == D1 \o <<"x.txt">>            \* 65535 bytes
FileU == D1 \o <<"u.txt">>            \* 5 bytes, not readable by the user
FileB == D2 \o <<"b.txt">>            \* 7 bytes
LinkL == D1 \o <<"l">>                \* symlink to FileB
LinkG == D1 \o <<"g">>                \* symlink to nothing
FileO == D3 \o <<"o.txt">>            \* 3 bytes, no metadata above it
FileT == <<"/", "tmp", "t.txt">>      \* 4 bytes, outside the workspace
NoFile == D1 \o <<"nx">>              \* does not exist
RelA  == <<"a.txt">>                  \* relative spelling of FileA

RegularFiles == {FileA, FileE, FileM, FileX, FileU, FileB, FileO, FileT}
Symlinks     == {LinkL, LinkG}
Directories  == {WsDir, D1, D2, D3, <<"/">>, <<"/", "tmp">>}

\* The paths a user may type.
RawArgs == RegularFiles \cup Symlinks \cup {D1, NoFile, RelA}

\* filepath.Abs
Abs(p) == IF p # <<>> /\ p[1] = "/" THEN p ELSE Cwd \o p

\* os.Lstat: the path names something (symlinks are not followed).
LstatOK(p) == p \in RegularFiles \cup Symlinks \cup Directories

\* os.FileInfo.IsDir of os.Lstat
IsDir(p) == p \in Directories

\* filepath.EvalSymlinks: the real path, or <<>> when the link dangles.
EvalSymlinks(p) ==
    CASE p = LinkL -> FileB
      [] p = LinkG -> <<>>
      [] OTHER     -> p

\* os.Stat: the path can be statted (symlinks are followed).
StatOK(p) == p \in RegularFiles \cup Directories \/ p = LinkL

\* os.FileInfo.Size of os.Stat
Size(p) ==
    CASE p = FileA -> 12
      [] p = FileE -> 0
      [] p = FileM -> 65534
      [] p = FileX -> 65535
      [] p = FileU -> 5
      [] p = FileB -> 7
      [] p = LinkL -> 7
      [] p = FileO -> 3
      [] p = FileT -> 4
      [] OTHER     -> 4096

\* os.Open succeeds.
OpenOK(p) == StatOK(p) /\ p # FileU

\* The directory holds the exercise's metadata file.
HasMetadata(d) == d \in {D1, D2}

---------------------------------------------------------------------------
(* Errors.  kind names the message of the source; text is the text of an    *)
(* error whose message comes from outside the program.                      *)

Error(k)        == [kind |-> k, text |-> <<>>]
ErrorT(k, t)    == [kind |-> k, text |-> t]
NoErr           == Error("nil")

NoExercise == [root |-> <<>>, slug |-> ""]
NoMetadata == [loaded |-> FALSE, ID |-> "", Exercise |-> "", Track |-> "",
               IsRequester |-> FALSE, AutoApprove |-> FALSE, Team |-> "", URL |-> ""]
NoResponse == [received |-> FALSE, status |-> 0,
               body |-> [kind |-> "none", message |-> <<>>]]

---------------------------------------------------------------------------
(* Collaborators of package workspace *)

maxFileSize == 65535

\* filepath.Base
Base(p) == IF p = <<>> THEN "." ELSE Last(p)

\* workspace.Workspace.ExerciseDir: the closest directory above the path
\* that holds metadata.
RECURSIVE ExerciseDirWalk(_)
ExerciseDirWalk(p) ==
    IF p = WsDir THEN [err |-> Error("errMissingMetadata"), dir |-> <<>>]
    ELSE IF HasMetadata(p) THEN [err |-> NoErr, dir |-> p]
    ELSE ExerciseDirWalk(Front(p))

ExerciseDir(p) ==
    IF ~HasPrefix(p, WsDir) THEN [err |-> Error("not in workspace"), dir |-> <<>>]
    ELSE ExerciseDirWalk(p)

\* workspace.IsMissingMetadata
IsMissingMetadata(e) == e.kind = "errMissingMetadata"

\* workspace.NewExerciseFromDir
NewExerciseFromDir(dir) == [root |-> dir, slug |-> Base(dir)]

\* workspace.NewDocument: the file with its path relative to the exercise.
NewDocument(root, file) ==
    [filepath |-> file,
     path     |-> IF HasPrefix(file, root)
                  THEN SubSeq(file, Len(root) + 1, Len(file)) ELSE file]

\* What workspace.NewExerciseMetadata can return: an error, or the record
\* stored in the exercise directory.
Slugs == {"d1", "d2"}
MetadataRecords ==
    [loaded : {TRUE}, ID : {"", "abc123"}, Exercise : Slugs, Track : {"go"},
     IsRequester : BOOLEAN, AutoApprove : BOOLEAN, Team : {"", "team"},
     URL : {"url"}]
LoadResults ==
    {[err |-> Error("metadata unreadable"), md |-> NoMetadata]}
    \cup {[err |-> NoErr, md |-> m] : m \in MetadataRecords}

---------------------------------------------------------------------------
(* cmd/submit.go *)

\* sanitizeArgs: the loop over s.args, from index i on.
RECURSIVE sanitizeLoop(_, _)
sanitizeLoop(as, i) ==
    IF i > Len(as) THEN [err |-> NoErr, args |-> as]
    ELSE LET arg == Abs(as[i])
         IN  IF ~LstatOK(arg)
             THEN [err |-> Error("file cannot be found"), args |-> as]
             ELSE IF IsDir(arg)
             THEN [err |-> Error("submitting a directory"), args |-> as]
             ELSE IF EvalSymlinks(arg) = <<>>
             THEN [err |-> Error("EvalSymlinks"), args |-> as]
             ELSE sanitizeLoop([as EXCEPT ![i] = EvalSymlinks(arg)], i + 1)

sanitizeArgs(as) == sanitizeLoop(as, 1)

\* _exercise: the loop over s.args, from index i on, with the local
\* variable exerciseDir (<<>> is the empty string).
RECURSIVE exerciseLoop(_, _, _)
exerciseLoop(as, i, exerciseDir) ==
    IF i > Len(as)
    THEN [err |-> NoErr, exercise |-> NewExerciseFromDir(exerciseDir)]
    ELSE LET r == ExerciseDir(as[i])
         IN  IF r.err # NoErr
             THEN [err |-> IF IsMissingMetadata(r.err)
                           THEN Error("msgMissingMetadata") ELSE r.err,
                   exercise |-> NoExercise]
             ELSE IF exerciseDir # <<>> /\ r.dir # exerciseDir
             THEN [err |-> Error("different solutions"), exercise |-> NoExercise]
             ELSE exerciseLoop(as, i + 1, r.dir)

\* The loop of _exercise comparing the directory only at the second path.
RECURSIVE exerciseLoopSecondOnly(_, _, _)
exerciseLoopSecondOnly(as, i, exerciseDir) ==
    IF i > Len(as)
    THEN [err |-> NoErr, exercise |-> NewExerciseFromDir(exerciseDir)]
    ELSE LET r == ExerciseDir(as[i])
         IN  IF r.err # NoErr
             THEN [err |-> IF IsMissingMetadata(r.err)
                           THEN Error("msgMissingMetadata") ELSE r.err,
                   exercise |-> NoExercise]
             ELSE IF i = 2 /\ r.dir # exerciseDir
             THEN [err |-> Error("different solutions"), exercise |-> NoExercise]
             ELSE exerciseLoopSecondOnly(as, i + 1, r.dir)

\* _exercise comparing only the first two paths.
_exerciseFirstTwo(as, wsOK) ==
    IF ~wsOK THEN [err |-> Error("workspace.New"), exercise |-> NoExercise]
    ELSE exerciseLoopSecondOnly(as, 1, <<>>)

\* _exercise; wsOK: workspace.New succeeded.
_exercise(as, wsOK) ==
    IF ~wsOK THEN [err |-> Error("workspace.New"), exercise |-> NoExercise]
    ELSE exerciseLoop(as, 1, <<>>)

\* _metadata with the requester check before the slug check.
_metadataRequesterFirst(ex, ld) ==
    IF ld.err # NoErr THEN [err |-> ld.err, metadata |-> NoMetadata]
    ELSE IF ~ld.md.IsRequester
    THEN [err |-> Error("not connected to your account"), metadata |-> NoMetadata]
    ELSE IF ld.md.Exercise # ex.slug
    THEN [err |-> Error("directory does not match slug"), metadata |-> NoMetadata]
    ELSE [err |-> NoErr, metadata |-> ld.md]

\* _metadata; ld: what workspace.NewExerciseMetadata returned.
_metadata(ex, ld) ==
    IF ld.err # NoErr THEN [err |-> ld.err, metadata |-> NoMetadata]
    ELSE IF ld.md.Exercise # ex.slug
    THEN [err |-> Error("directory does not match slug"), metadata |-> NoMetadata]
    ELSE IF ~ld.md.IsRequester
    THEN [err |-> Error("not connected to your account"), metadata |-> NoMetadata]
    ELSE [err |-> NoErr, metadata |-> ld.md]

\* _documents: the loop over s.args, from index i on, with the local
\* variable docs and the warnings written to Err so far.
RECURSIVE documentsLoop(_, _, _, _, _)
documentsLoop(as, ex, i, docs, warns) ==
    IF i > Len(as)
    THEN IF Len(docs) = 0
         THEN [err |-> Error("No files found to submit"), docs |-> <<>>, warns |-> warns]
         ELSE [err |-> NoErr, docs |-> docs, warns |-> warns]
    ELSE LET file == as[i]
         IN  IF ~StatOK(file)
             THEN [err |-> Error("Stat"), docs |-> <<>>, warns |-> warns]
             ELSE IF Size(file) >= maxFileSize
             THEN [err |-> Error("larger than the max allowed file size"),
                   docs |-> <<>>, warns |-> warns]
             ELSE IF Size(file) = 0
             THEN documentsLoop(as, ex, i + 1, docs,
                                Append(warns, <<"Skipping empty file", file>>))
             ELSE documentsLoop(as, ex, i + 1,
                                Append(docs, NewDocument(ex.root, file)), warns)

\* The loop of _documents with a variation v of it:
\*   "gt"     the size test is > instead of >=
\*   "return" an empty file ends the loop instead of being skipped
\*   "dedup"  a file already collected is not collected again
\*   "empty"  an empty document list is returned as it is
RECURSIVE documentsLoopVar(_, _, _, _, _, _)
documentsLoopVar(v, as, ex, i, docs, warns) ==
    IF i > Len(as)
    THEN IF Len(docs) = 0 /\ v # "empty"
         THEN [err |-> Error("No files found to submit"), docs |-> <<>>, warns |-> warns]
         ELSE [err |-> NoErr, docs |-> docs, warns |-> warns]
    ELSE LET file == as[i]
         IN  IF ~StatOK(file)
             THEN [err |-> Error("Stat"), docs |-> <<>>, warns |-> warns]
             ELSE IF (IF v = "gt" THEN Size(file) > maxFileSize
                                  ELSE Size(file) >= maxFileSize)
             THEN [err |-> Error("larger than the max allowed file size"),
                   docs |-> <<>>, warns |-> warns]
             ELSE IF Size(file) = 0
             THEN IF v = "return"
                  THEN [err |-> Error("No files found to submit"), docs |-> <<>>,
                        warns |-> Append(warns, <<"Skipping empty file", file>>)]
                  ELSE documentsLoopVar(v, as, ex, i + 1, docs,
                                        Append(warns, <<"Skipping empty file", file>>))
             ELSE IF v = "dedup" /\ \E j \in DOMAIN docs : docs[j].filepath = file
             THEN documentsLoopVar(v, as, ex, i + 1, docs, warns)
             ELSE documentsLoopVar(v, as, ex, i + 1,
                                   Append(docs, NewDocument(ex.root, file)), warns)

_documentsGreaterThan(as, ex)  == documentsLoopVar("gt", as, ex, 1, <<>>, <<>>)
_documentsReturnOnEmpty(as, ex) == documentsLoopVar("return", as, ex, 1, <<>>, <<>>)
_documentsDedup(as, ex)        == documentsLoopVar("dedup", as, ex, 1, <<>>, <<>>)
_documentsAllowEmpty(as, ex)   == documentsLoopVar("empty", as, ex, 1, <<>>, <<>>)

_documents(as, ex) == documentsLoop(as, ex, 1, <<>>, <<>>)

---------------------------------------------------------------------------
(* submitDocuments *)

\* The characters of a server message: a letter and the percent sign.
MsgChars == {"a", "%"}
Messages == SeqsUpTo(MsgChars, MaxMsgLen)

\* fmt.Errorf(format) with no operands: the text of the error.  A percent
\* sign starts a verb; "%%" is a percent sign, a verb without an operand is
\* written %!v(MISSING), and a percent sign that ends the format %!(NOVERB).
RECURSIVE Errorf(_)
Errorf(format) ==
    IF format = <<>> THEN <<>>
    ELSE IF Head(format) # "%" THEN <<Head(format)>> \o Errorf(Tail(format))
    ELSE IF Len(format) = 1
    THEN <<"%", "!", "(", "N", "O", "V", "E", "R", "B", ")">>
    ELSE IF format[2] = "%"
    THEN <<"%">> \o Errorf(SubSeq(format, 3, Len(format)))
    ELSE <<"%", "!", format[2], "(", "M", "I", "S", "S", "I", "N", "G", ")">>
         \o Errorf(SubSeq(format, 3, Len(format)))

\* The bodies a response can carry: a JSON object whose error.message is
\* the given string, bytes that are no JSON, or a stream that breaks while
\* it is read.
Bodies ==
    {[kind |-> "json", message |-> m] : m \in Messages}
    \cup {[kind |-> "malformed", message |-> <<>>],
          [kind |-> "broken", message |-> <<>>]}

StatusCodes == {200, 400, 401, 500}

\* What client.Do can return: an error, or a response.
DoResults ==
    {NoResponse}
    \cup [received : {TRUE}, status : StatusCodes, body : Bodies]

\* json.NewDecoder(resp.Body).Decode(&jsonErrBody)
Decode(body) ==
    IF body.kind = "json" THEN [err |-> NoErr, Message |-> body.message]
    ELSE [err |-> Error("decode"), Message |-> <<>>]

\* bb.ReadFrom(resp.Body)
ReadFrom(body) == IF body.kind = "broken" THEN Error("ReadFrom") ELSE NoErr

\* buildBody leaving out a file that cannot be opened.
RECURSIVE buildBodySkipUnreadable(_, _, _)
buildBodySkipUnreadable(docs, i, parts) ==
    IF i > Len(docs) THEN [err |-> NoErr, parts |-> parts]
    ELSE IF ~OpenOK(docs[i].filepath)
    THEN buildBodySkipUnreadable(docs, i + 1, parts)
    ELSE buildBodySkipUnreadable(docs, i + 1,
                   Append(parts, [field    |-> "files[]",
                                  filename |-> docs[i].path,
                                  content  |-> docs[i].filepath]))

\* submitDocuments, lines 299-317: the multipart body, one part per document.
RECURSIVE buildBody(_, _, _)
buildBody(docs, i, parts) ==
    IF i > Len(docs) THEN [err |-> NoErr, parts |-> parts]
    ELSE IF ~OpenOK(docs[i].filepath)
    THEN [err |-> Error("Open"), parts |-> parts]
    ELSE buildBody(docs, i + 1,
                   Append(parts, [field    |-> "files[]",
                                  filename |-> docs[i].path,
                                  content  |-> docs[i].filepath]))

\* handleResponse with every status from 400 on taken as a failure.
handleResponseCheckStatus(resp) ==
    IF resp.status >= 400
    THEN LET d == Decode(resp.body)
         IN  IF d.err # NoErr THEN Error("failed to parse error response")
             ELSE ErrorT("api", Errorf(d.Message))
    ELSE ReadFrom(resp.body)

\* submitDocuments, lines 336-350: what is made of a received response.
handleResponse(resp) ==
    IF resp.status = 400
    THEN LET d == Decode(resp.body)
         IN  IF d.err # NoErr THEN Error("failed to parse error response")
             ELSE ErrorT("api", Errorf(d.Message))
    ELSE ReadFrom(resp.body)

\* The collaborators' answers during submitDocuments.
SubmitEnvs == [clientOK : BOOLEAN, requestOK : BOOLEAN, do : DoResults]

\* submitDocuments: the error returned, the requests given to client.Do
\* and the response received.
submitDocuments(md, docs, env) ==
    LET none == [err |-> NoErr, requests |-> <<>>, response |-> NoResponse]
        body == buildBody(docs, 1, <<>>)
        request == [method |-> "PATCH",
                    url    |-> <<"apibaseurl", "solutions", md.ID>>,
                    parts  |-> body.parts]
    IN  IF md.ID = "" THEN [none EXCEPT !.err = Error("id is empty")]
        ELSE IF Len(docs) = 0 THEN [none EXCEPT !.err = Error("documents is empty")]
        ELSE IF body.err # NoErr THEN [none EXCEPT !.err = body.err]
        ELSE IF ~env.clientOK THEN [none EXCEPT !.err = Error("NewClient")]
        ELSE IF ~env.requestOK THEN [none EXCEPT !.err = Error("NewRequest")]
        ELSE IF ~env.do.received
        THEN [err |-> Error("Do"), requests |-> <<request>>, response |-> NoResponse]
        ELSE [err |-> handleResponse(env.do), requests |-> <<request>>,
              response |-> env.do]

\* printResult: the lines written to Err and to Out.
printResult(md) ==
    [err |-> <<"submitted successfully",
               IF md.AutoApprove /\ md.Team = ""
               THEN "unlock the next core exercise" ELSE "View it at">>,
     out |-> md.URL]

---------------------------------------------------------------------------
(* debug/debug.go *)

\* A body is a stream: the bytes a reader obtains from it, and whether
\* the read that follows them ends in an error instead of io.EOF.
Stream(d, f) == [data |-> d, fails |-> f]
Empty == Stream(<<>>, FALSE)
Bytes == {0, 1}
Streams == {Stream(d, f) : d \in SeqsUpTo(Bytes, MaxBody), f \in BOOLEAN}

\* Authorization header values, as characters: "B" is the scheme word
\* (Bearer), "k" a character of the token; <<>> is a request without the
\* header (Header.Get returns "").
AuthHeaders == {<<>>, <<"k">>, <<"B", " ", "k">>, <<"B", " ", "k", "k">>}

\* The ContentLength of a response with this body: the number of its
\* bytes, or -1 when the server does not announce it.
ContentLengths(body) == {-1, Len(body.data)}

NoRequest  == [Authorization |-> <<>>, ContentLength |-> 0, Body |-> Empty,
               present |-> FALSE]
NoDumped   == [StatusCode |-> 0, ContentLength |-> 0, Body |-> Empty,
               present |-> FALSE]
\* Requests as http.NewRequest builds them from an in-memory buffer: the
\* ContentLength is the number of bytes of the body.
HttpRequests ==
    {[Authorization |-> a, ContentLength |-> Len(b.data), Body |-> b, present |-> TRUE] :
        a \in AuthHeaders, b \in Streams}
HttpResponses ==
    UNION {{[StatusCode |-> c, ContentLength |-> n, Body |-> b, present |-> TRUE] :
              c \in {200, 400}, n \in ContentLengths(b)} : b \in Streams}

\* strings.Split(s, " "): the fields between the spaces; cur is the field
\* being read.
RECURSIVE SplitLoop(_, _, _)
SplitLoop(s, cur, fields) ==
    IF s = <<>> THEN Append(fields, cur)
    ELSE IF Head(s) = " " THEN SplitLoop(Tail(s), <<>>, Append(fields, cur))
    ELSE SplitLoop(Tail(s), Append(cur, Head(s)), fields)

Split(s) == SplitLoop(s, <<>>, <<>>)

\* utils.Redact: the display form of a token.
Redact(token) == [i \in 1..Len(token) |-> "*"]

\* io.TeeReader(src, &bodyCopy) read to its end (httputil's drainBody):
\* the source is left empty and bodyCopy holds what was read.
TeeDrain(src) == [src |-> Empty, bodyCopy |-> Stream(src.data, FALSE), err |-> src.fails]

\* DumpRequest: how the call ends, the request afterwards and what was
\* written to output.
DumpRequest(r) ==
    IF ~Verbose THEN [outcome |-> "returned", req |-> r, output |-> <<>>]
    ELSE
    LET temp   == r.Authorization
        fields == Split(temp)
        dumpBody == r.ContentLength > 0          \* httputil.DumpRequest(req, body)
        tee    == IF dumpBody THEN TeeDrain(r.Body)
                  ELSE [src |-> r.Body, bodyCopy |-> Empty, err |-> FALSE]
    IN  IF ~UnmaskAPIKey /\ Len(fields) < 2
        THEN \* strings.Split(temp, " ")[1]: index out of range
             [outcome |-> "panic", req |-> [r EXCEPT !.Body = tee.src], output |-> <<>>]
        ELSE IF tee.err
        THEN \* log.Fatal(err)
             [outcome |-> "fatal", req |-> [r EXCEPT !.Body = tee.src], output |-> <<>>]
        ELSE [outcome |-> "returned",
              \* req.Header.Set("Authorization", temp); req.Body = &bodyCopy
              req     |-> [r EXCEPT !.Authorization = temp, !.Body = tee.bodyCopy],
              output  |-> <<[dump |-> "DumpRequest",
                             Authorization |-> IF UnmaskAPIKey THEN temp
                                               ELSE <<"B", " ">> \o Redact(fields[2]),
                             body |-> IF dumpBody THEN tee.bodyCopy.data ELSE <<>>]>>]

\* DumpResponse: how the call ends, the response afterwards and what was
\* written to output.
DumpResponse(r) ==
    IF ~Verbose THEN [outcome |-> "returned", res |-> r, output |-> <<>>]
    ELSE
    LET dumpBody == r.ContentLength > 0          \* httputil.DumpResponse(res, body)
        tee    == IF dumpBody THEN TeeDrain(r.Body)
                  ELSE [src |-> r.Body, bodyCopy |-> Empty, err |-> FALSE]
    IN  IF tee.err
        THEN \* log.Fatal(err)
             [outcome |-> "fatal", res |-> [r EXCEPT !.Body = tee.src], output |-> <<>>]
        ELSE [outcome |-> "returned",
              \* res.Body = ioutil.NopCloser(body): the tee, not bodyCopy
              res     |-> [r EXCEPT !.Body = tee.src],
              output  |-> <<[dump |-> "DumpResponse",
                             Authorization |-> <<>>,
                             body |-> IF dumpBody THEN tee.bodyCopy.data ELSE <<>>]>>]

---------------------------------------------------------------------------
(* runSubmit as a state machine: one action per stage. *)

DebugIdle ==
    /\ Verbose = FALSE
    /\ UnmaskAPIKey = FALSE
    /\ req = NoRequest
    /\ res = NoDumped
    /\ output = <<>>
    /\ dpc = "idle"
    /\ orig = [req |-> NoRequest, res |-> NoDumped]

Init ==
    /\ args \in SeqsUpTo(RawArgs, MaxArgs)
    /\ pc = "validateUserConfig"
    /\ last = "none"
    /\ err = NoErr
    /\ exercise = NoExercise
    /\ loaded = NoMetadata
    /\ metadata = NoMetadata
    /\ documents = <<>>
    /\ requests = <<>>
    /\ response = NoResponse
    /\ stderr = <<>>
    /\ stdout = <<>>
    /\ DebugIdle

\* A stage returned e: the run goes on to next, or ends with the error.
Return(stage, e, next) ==
    /\ last' = stage
    /\ err' = e
    /\ pc' = IF e = NoErr THEN next ELSE "failed"

\* runSubmit, lines 68-70.
ValidateUserConfig ==
    /\ pc = "validateUserConfig"
    /\ \E ok \in BOOLEAN :
          Return("validateUserConfig",
                 IF ok THEN NoErr ELSE Error("validateUserConfig"), "sanitizeArgs")
    /\ UNCHANGED <<args, exercise, loaded, metadata, documents, requests,
                   response, stderr, stdout, debugVars>>

\* newSubmitContext, lines 89-91.
SanitizeArgs ==
    /\ pc = "sanitizeArgs"
    /\ LET r == sanitizeArgs(args)
       IN  /\ args' = r.args
           /\ Return("sanitizeArgs", r.err, "_exercise")
    /\ UNCHANGED <<exercise, loaded, metadata, documents, requests,
                   response, stderr, stdout, debugVars>>

\* newSubmitContext, lines 93-97.
Exercise ==
    /\ pc = "_exercise"
    /\ \E wsOK \in BOOLEAN :
          LET r == _exercise(args, wsOK)
          IN  /\ exercise' = r.exercise
              /\ Return("_exercise", r.err, "migrateLegacyMetadata")
    /\ UNCHANGED <<args, loaded, metadata, documents, requests,
                   response, stderr, stdout, debugVars>>

\* newSubmitContext, lines 99-101, and migrateLegacyMetadata.
MigrateLegacyMetadata ==
    /\ pc = "migrateLegacyMetadata"
    /\ \E ok \in BOOLEAN, verbose \in BOOLEAN :
          /\ Return("migrateLegacyMetadata",
                    IF ok THEN NoErr ELSE Error("MigrateLegacyMetadataFile"),
                    "_metadata")
          /\ stderr' = IF ok /\ verbose
                       THEN Append(stderr, <<"migrationStatus">>) ELSE stderr
    /\ UNCHANGED <<args, exercise, loaded, metadata, documents, requests,
                   response, stdout, debugVars>>

\* newSubmitContext, lines 103-107.
Metadata ==
    /\ pc = "_metadata"
    /\ \E ld \in LoadResults :
          LET r == _metadata(exercise, ld)
          IN  /\ loaded' = ld.md
              /\ metadata' = r.metadata
              /\ Return("_metadata", r.err, "_documents")
    /\ UNCHANGED <<args, exercise, documents, requests, response, stderr,
                   stdout, debugVars>>

\* newSubmitContext, lines 109-115.
Documents ==
    /\ pc = "_documents"
    /\ LET r == _documents(args, exercise)
       IN  /\ documents' = r.docs
           /\ stderr' = stderr \o r.warns
           /\ Return("_documents", r.err, "submitDocuments")
    /\ UNCHANGED <<args, exercise, loaded, metadata, requests, response,
                   stdout, debugVars>>

\* runSubmit, lines 77-79.
SubmitDocuments ==
    /\ pc = "submitDocuments"
    /\ \E env \in SubmitEnvs :
          LET r == submitDocuments(metadata, documents, env)
          IN  /\ requests' = requests \o r.requests
              /\ response' = r.response
              /\ Return("submitDocuments", r.err, "printResult")
    /\ UNCHANGED <<args, exercise, loaded, metadata, documents, stderr,
                   stdout, debugVars>>

\* runSubmit, lines 81-82.
PrintResult ==
    /\ pc = "printResult"
    /\ LET r == printResult(metadata)
       IN  /\ stderr' = Append(stderr, r.err)
           /\ stdout' = Append(stdout, r.out)
    /\ Return("printResult", NoErr, "done")
    /\ UNCHANGED <<args, exercise, loaded, metadata, documents, requests,
                   response, debugVars>>

Next ==
    \/ ValidateUserConfig
    \/ SanitizeArgs
    \/ Exercise
    \/ MigrateLegacyMetadata
    \/ Metadata
    \/ Documents
    \/ SubmitDocuments
    \/ PrintResult

Spec == Init /\ [][Next]_vars

---------------------------------------------------------------------------
(* DumpRequest and DumpResponse as a state machine *)

RunIdle ==
    /\ args = <<>>
    /\ pc = "idle"
    /\ last = "none"
    /\ err = NoErr
    /\ exercise = NoExercise
    /\ loaded = NoMetadata
    /\ metadata = NoMetadata
    /\ documents = <<>>
    /\ requests = <<>>
    /\ response = NoResponse
    /\ stderr = <<>>
    /\ stdout = <<>>

InitDebug ==
    /\ RunIdle
    /\ Verbose \in BOOLEAN
    /\ UnmaskAPIKey \in BOOLEAN
    /\ output = <<>>
    /\ \/ /\ dpc = "request"
          /\ req \in HttpRequests
          /\ res = NoDumped
       \/ /\ dpc = "response"
          /\ res \in HttpResponses
          /\ req = NoRequest
    /\ orig = [req |-> req, res |-> res]

\* client.Do calls debug.DumpRequest(req) before the request is sent.
DumpRequestStep ==
    /\ dpc = "request"
    /\ LET r == DumpRequest(req)
       IN  /\ req' = r.req
           /\ output' = output \o r.output
           /\ dpc' = IF r.outcome = "returned" THEN "request dumped" ELSE r.outcome
    /\ UNCHANGED <<runVars, Verbose, UnmaskAPIKey, res, orig>>

\* client.Do calls debug.DumpResponse(res) on the response received.
DumpResponseStep ==
    /\ dpc = "response"
    /\ LET r == DumpResponse(res)
       IN  /\ res' = r.res
           /\ output' = output \o r.output
           /\ dpc' = IF r.outcome = "returned" THEN "response dumped" ELSE r.outcome
    /\ UNCHANGED <<runVars, Verbose, UnmaskAPIKey, req, orig>>

NextDebug ==
    \/ DumpRequestStep
    \/ DumpResponseStep

SpecDebug == InitDebug /\ [][NextDebug]_vars

---------------------------------------------------------------------------
(* Properties of runSubmit (checked under Spec) *)

Indexes(q) == DOMAIN q

\* The exercise directories the (resolved) arguments belong to.
AllResolve == \A i \in Indexes(args) : ExerciseDir(args[i]).err = NoErr
ArgDirs    == {ExerciseDir(args[i]).dir : i \in Indexes(args)}

\* The arguments that are files with content, in the order given.
NonEmptyArgs == SelectSeq(args, LAMBDA f : Size(f) > 0)

\* One files[] part per non-empty argument, in the order given.
ExpectedParts ==
    [i \in 1..Len(NonEmptyArgs) |->
        [field    |-> "files[]",
         filename |-> NewDocument(exercise.root, NonEmptyArgs[i]).path,
         content  |-> NonEmptyArgs[i]]]

\* newSubmitContext returned a context.
ContextBuilt == pc = "submitDocuments" \/ last \in {"submitDocuments", "printResult"}

\* The run is over.
Terminated == pc \in {"done", "failed"}

\* C1: a 400 response whose body decodes with message X makes
\* submitDocuments return an error whose text is exactly X.
C1_ApiErrorVerbatim ==
    (/\ last = "submitDocuments"
     /\ response.received
     /\ response.status = 400
     /\ Decode(response.body).err = NoErr)
    => err = ErrorT("api", Decode(response.body).Message)

\* C2: when every path resolves to an exercise directory, _exercise fails
\* with the mixed-solution error if two paths resolve to different
\* directories, wherever they stand in the list, and returns the Exercise of
\* the directory if all resolve to the same one.
C2_MixedSolution ==
    (last = "_exercise" /\ err.kind # "workspace.New" /\ AllResolve)
    => /\ Cardinality(ArgDirs) >= 2
            => /\ pc = "failed"
               /\ err = Error("different solutions")
               /\ exercise = NoExercise
       /\ Cardinality(ArgDirs) = 1
            => /\ err = NoErr
               /\ \A d \in ArgDirs : exercise = [root |-> d, slug |-> Last(d)]

\* C2 witness: two paths of one directory followed by a path of another.
C2_Witness ==
    /\ last = "_exercise"
    /\ err = Error("different solutions")
    /\ Len(args) = 3
    /\ ExerciseDir(args[1]).dir = ExerciseDir(args[2]).dir
    /\ ExerciseDir(args[3]).dir # ExerciseDir(args[1]).dir
    /\ AllResolve


\* The paths all lie under one exercise directory and are within the size
\* limit.
OneExercise == AllResolve /\ Cardinality(ArgDirs) = 1
WithinLimit == \A i \in Indexes(args) : Size(args[i]) < 65535

\* C3 as stated: for paths under one exercise directory and within the
\* size limit, a run that got as far as collecting the documents issues
\* exactly one PATCH request with one files[] part per non-empty file.
C3_Original ==
    (/\ Terminated
     /\ last \in {"_documents", "submitDocuments", "printResult"}
     /\ OneExercise
     /\ WithinLimit)
    => /\ Len(requests) = 1
       /\ requests[1].method = "PATCH"
       /\ requests[1].parts = ExpectedParts

\* C3 (amended): at most one request is issued; a request that is issued
\* is a PATCH whose body has one files[] part per non-empty input file,
\* duplicates included, in input order; and for paths under one exercise
\* directory, within the size limit and with at least one non-empty file,
\* the request is issued whenever the stages before _documents succeeded,
\* the metadata carries a solution ID, the files can be opened and the
\* client and the request can be built.
C3_OnePartPerFile ==
    /\ Len(requests) <= 1
    /\ requests # <<>>
         => /\ requests[1].method = "PATCH"
            /\ requests[1].url = <<"apibaseurl", "solutions", metadata.ID>>
            /\ requests[1].parts = ExpectedParts
            /\ OneExercise
            /\ WithinLimit
    /\ (/\ Terminated
        /\ last \in {"_documents", "submitDocuments", "printResult"}
        /\ OneExercise
        /\ WithinLimit
        /\ NonEmptyArgs # <<>>
        /\ metadata.ID # ""
        /\ \A i \in Indexes(args) : Size(args[i]) > 0 => OpenOK(args[i])
        /\ err.kind \notin {"NewClient", "NewRequest"})
       => Len(requests) = 1

\* C3 witness: a request for a list with a duplicated path and an empty
\* file between the duplicates.
C3_Witness ==
    /\ Len(requests) = 1
    /\ args = <<FileA, FileE, FileA>>
    /\ Len(requests[1].parts) = 2

\* C4: a file of 65535 bytes or more anywhere in the list fails the whole
\* batch with the file-too-large error and no documents; a file of 65534
\* bytes becomes a Document; every Document has 0 < size < 65535.
C4_SizeLimit ==
    /\ last = "_documents"
         => /\ (\E i \in Indexes(args) : Size(args[i]) >= 65535)
                 => /\ pc = "failed"
                    /\ err = Error("larger than the max allowed file size")
                    /\ documents = <<>>
            /\ err = NoErr
                 => \A i \in Indexes(args) :
                       Size(args[i]) = 65534
                         => \E j \in Indexes(documents) : documents[j].filepath = args[i]
    /\ \A j \in Indexes(documents) :
          /\ 0 < Size(documents[j].filepath)
          /\ Size(documents[j].filepath) < 65535

\* C4 witness: the batch fails on a file of 65535 bytes that comes after
\* an empty file and a valid one.
C4_Witness ==
    /\ last = "_documents"
    /\ err = Error("larger than the max allowed file size")
    /\ Len(args) = 3
    /\ Size(args[1]) = 0
    /\ Size(args[2]) = 65534
    /\ Size(args[3]) = 65535

\* C5: an empty file never becomes a Document and never fails the batch by
\* itself: the batch fails with the no-files error exactly when every file
\* is empty, and succeeds with the non-empty files when there is one and
\* none is too large.
C5_EmptyFiles ==
    /\ \A j \in Indexes(documents) : Size(documents[j].filepath) # 0
    /\ last = "_documents"
         => /\ err = Error("No files found to submit")
                 <=> \A i \in Indexes(args) : Size(args[i]) = 0
            /\ (NonEmptyArgs # <<>> /\ WithinLimit)
                 => /\ err = NoErr
                    /\ pc = "submitDocuments"
                    /\ Len(documents) = Len(NonEmptyArgs)
                    /\ \A j \in Indexes(documents) :
                          documents[j].filepath = NonEmptyArgs[j]

\* C5 witness: the batch succeeds with an empty file before and after a
\* file with content.
C5_Witness ==
    /\ last = "_documents"
    /\ err = NoErr
    /\ args = <<FileE, FileA, FileE>>
    /\ Len(documents) = 1
    /\ Len(stderr) >= 2

\* C6 as stated: metadata with isRequester == false, loaded for the
\* exercise of the paths given, fails with the unlinked-solution error
\* whatever the other fields are.
C6_Original ==
    (last = "_metadata" /\ args # <<>> /\ loaded.loaded /\ ~loaded.IsRequester)
    => err = Error("not connected to your account")

\* C6 (amended): metadata with isRequester == false always fails: with the
\* slug-mismatch error when its exercise field differs from the exercise's
\* slug (that check comes first), with the unlinked-solution error when it
\* matches; metadata is returned only when both checks pass.
C6_MetadataChecks ==
    /\ (last = "_metadata" /\ loaded.loaded)
         => /\ loaded.Exercise # exercise.slug
                 => err = Error("directory does not match slug")
            /\ (loaded.Exercise = exercise.slug /\ ~loaded.IsRequester)
                 => err = Error("not connected to your account")
            /\ ~loaded.IsRequester => pc = "failed"
            /\ err = NoErr
                 <=> (loaded.Exercise = exercise.slug /\ loaded.IsRequester)
            /\ err = NoErr => metadata = loaded
    /\ metadata.loaded
         => /\ metadata.Exercise = exercise.slug
            /\ metadata.IsRequester

\* C6 witness: isRequester is false and the slug differs too.
C6_Witness ==
    /\ last = "_metadata"
    /\ args # <<>>
    /\ loaded.loaded
    /\ ~loaded.IsRequester
    /\ loaded.Exercise # exercise.slug
    /\ err = Error("directory does not match slug")

\* C7 as stated: once a response is received, every status other than 400
\* is a success and only status 400 is a failure.
C7_Original ==
    (last = "submitDocuments" /\ response.received)
    => (err = NoErr <=> response.status # 400)

\* C7 (amended): once a response is received, every status other than 400
\* is a success provided the body can be read to its end; a body whose
\* read fails makes submitDocuments return that read error; status 400 is
\* always a failure.
C7_NonBadRequest ==
    (last = "submitDocuments" /\ response.received)
    => /\ (response.status # 400 /\ response.body.kind # "broken")
            => (err = NoErr /\ pc = "printResult")
       /\ (response.status # 400 /\ response.body.kind = "broken")
            => err = Error("ReadFrom")
       /\ response.status = 400 => (err # NoErr /\ pc = "failed")

\* C7 witness: a 500 response is a success.
C7_Witness ==
    /\ last = "submitDocuments"
    /\ response.received
    /\ response.status = 500
    /\ err = NoErr

\* The success message was written.
SuccessPrinted ==
    \/ stdout # <<>>
    \/ \E k \in Indexes(stderr) : stderr[k][1] = "submitted successfully"

\* C8: the request is issued at most once and only after every earlier
\* stage succeeded and every document was read into the body; a failure
\* before the request leaves no request, no part of the files is uploaded
\* alone, and the success message is printed only after submitDocuments
\* returned no error.
C8_AllOrNothing ==
    /\ Len(requests) <= 1
    /\ requests # <<>>
         => /\ last \in {"submitDocuments", "printResult"}
            /\ exercise # NoExercise
            /\ metadata.loaded /\ metadata.IsRequester
            /\ metadata.Exercise = exercise.slug
            /\ documents # <<>>
            /\ Len(requests[1].parts) = Len(documents)
            /\ \A j \in Indexes(documents) :
                  /\ requests[1].parts[j].content = documents[j].filepath
                  /\ OpenOK(documents[j].filepath)
    /\ pc = "failed"
         => /\ err # NoErr
            /\ ~SuccessPrinted
            /\ (last # "submitDocuments" => requests = <<>>)
            /\ (err.kind \in {"id is empty", "documents is empty", "Open",
                              "NewClient", "NewRequest"} => requests = <<>>)
    /\ pc # "failed" => err = NoErr
    /\ SuccessPrinted
         => /\ pc = "done"
            /\ Len(requests) = 1
            /\ response.received

\* C8 witness: the second of two documents cannot be opened; nothing is
\* sent.
C8_Witness ==
    /\ pc = "failed"
    /\ last = "submitDocuments"
    /\ err = Error("Open")
    /\ Len(documents) = 2
    /\ OpenOK(documents[1].filepath)
    /\ requests = <<>>

\* C9 as stated: whenever newSubmitContext succeeds the solution ID and
\* the document list are non-empty, so neither precondition of
\* submitDocuments fails.
C9_Original ==
    /\ ContextBuilt => (metadata.ID # "" /\ documents # <<>>)
    /\ err.kind \notin {"id is empty", "documents is empty"}

\* C9 (amended): whenever newSubmitContext succeeds the document list is
\* non-empty, so "documents is empty" is never returned; the solution ID is
\* checked by no earlier stage, and submitDocuments returns "id is empty",
\* without sending a request, exactly when the loaded metadata has no ID.
C9_DocumentsNonEmpty ==
    /\ ContextBuilt => documents # <<>>
    /\ err # Error("documents is empty")
    /\ last = "submitDocuments"
         => (err = Error("id is empty") <=> metadata.ID = "")
    /\ err = Error("id is empty") => requests = <<>>

\* C9 witness: the run ends with "id is empty".
C9_Witness ==
    /\ pc = "failed"
    /\ last = "submitDocuments"
    /\ err = Error("id is empty")
    /\ documents # <<>>

---------------------------------------------------------------------------
(* Properties of package debug (checked under SpecDebug) *)

\* The request carries the header the redaction expects ("Bearer <token>")
\* and the bodies can be read to their end.
WellFormedExchange ==
    /\ orig.req.present => Len(Split(orig.req.Authorization)) >= 2
    /\ ~orig.req.Body.fails
    /\ ~orig.res.Body.fails

\* C10: for every such request and response and for both values of Verbose
\* and UnmaskAPIKey, DumpRequest and DumpResponse return normally and leave
\* the Authorization header and the bytes a later reader obtains from the
\* body as they were; with Verbose unset they do nothing.
C10_TransparentObserver ==
    WellFormedExchange
    => /\ dpc \notin {"panic", "fatal"}
       /\ dpc = "request dumped"
            => /\ req.Authorization = orig.req.Authorization
               /\ req.Body = orig.req.Body
       /\ dpc = "response dumped"
            => res.Body = orig.res.Body
       /\ ~Verbose
            => /\ output = <<>>
               /\ req = orig.req
               /\ res = orig.res

\* What does hold of the dump layer: with Verbose unset nothing changes;
\* the Authorization header is restored whenever DumpRequest returns; a
\* request body survives exactly when its ContentLength is positive or it
\* is empty and intact, a response body exactly when its ContentLength is
\* not positive or it is empty.
DumpLayerFacts ==
    /\ ~Verbose
         => /\ dpc \notin {"panic", "fatal"}
            /\ output = <<>>
            /\ req = orig.req
            /\ res = orig.res
    /\ dpc = "request dumped"
         => /\ req.Authorization = orig.req.Authorization
            /\ req.Body = orig.req.Body
                 <=> \/ ~Verbose
                     \/ orig.req.ContentLength > 0
                     \/ orig.req.Body = Empty
    /\ dpc = "response dumped"
         => (res.Body = orig.res.Body
                 <=> \/ ~Verbose
                     \/ orig.res.ContentLength <= 0
                     \/ orig.res.Body = Empty)
    /\ dpc = "panic"
         => Verbose /\ ~UnmaskAPIKey /\ Len(Split(orig.req.Authorization)) < 2

====
